---------------------------- MODULE Spec2Model ----------------------------
(***************************************************************************)
(* A model of the load balancer of src/cpp: the backend (backend.cpp), the *)
(* least-response-time balancer (least_response_load_balancer.cpp) and the *)
(* round-robin balancer (round_robin_load_balancer.cpp).                   *)
(*                                                                         *)
(* Backends are numbered 1..n in configured order.  Client requests are    *)
(* coroutines 1..NumRequests, each of which runs send_request again and    *)
(* again; a health monitor is a coroutine spawned by start_health_checks,   *)
(* one per call, in a slot 1..MaxTasks.                                    *)
(* backend_semaphore.acquire() blocks, so an action                        *)
(* that acquires is enabled only while the count is 1.  An action is one   *)
(* stretch of code between two suspension points (co_await) or between two *)
(* accesses to state that another thread may change meanwhile.             *)
(***************************************************************************)
EXTENDS Integers, Sequences, FiniteSets, TLC

\* Bounds of the model.
MaxRoundRobinBackends == 3
MaxLeastResponseBackends == 2
NumRequests == 2
MaxResponseTime == 1
MaxRoundRobinResponseTime == 0
MaxUndefined == 1
MaxTasks == 2
NumThreads == 2

\* drogon::HttpStatusCode values the code compares with.
k200OK == 200
k206PartialContent == 206
k503ServiceUnavailable == 503

VARIABLES
  algo,                   \* which balancer was constructed
  backends,               \* the configured backends, in order
  backend_health,         \* SimpleBackend::backend_health, per backend
  response_time_ms,       \* SimpleBackend::response_time_ms, per backend
  healthy_backends,       \* the priority queue, as a bag: backend -> copies
  unhealthy_backends,     \* the vector of unhealthy backends
  current_backend_index,  \* round robin cursor (0-based, as in the code)
  backend_semaphore,      \* count of the counting_semaphore<1>
  pc,                     \* per request: where its send_request stands
  backend,                \* per request: the local `backend` (0: none yet)
  response,               \* per request: status of the response (0: none)
  tried_backends,         \* per request: local of next_available_backend
  health_check_thread_running, \* the balancer's atomic<bool>
  mpc,                    \* per monitor task: where the coroutine stands
  mbackend,               \* per monitor task: the backend being probed (0: none)
  midx,                   \* per monitor task: position in the vector being walked
  new_healthy_backends,   \* per monitor task: local of the cycle (a bag)
  new_unhealthy_backends, \* per monitor task: local of the cycle (a sequence)
  holder,                 \* history: who holds backend_semaphore
  heap_stale,             \* history: an element's key changed inside healthy_backends
  new_heap_stale,         \* history: the same for each new_healthy_backends
  undefined_count,        \* history: top()/pop() executed on an empty queue
  crashed,                \* history: the process died of it
  failed_forward,         \* history: backends a forward failed on, not probed ok since
  probed,                 \* history: per monitor task, probes per backend in its cycle
  entry_index,            \* history: per request, the cursor when the scan began
  reads,                  \* history: per request, the <<backend, health>> the scan read
  stable_since_init,      \* history: no flag changed and `selections` is complete
  selections,             \* history: round robin selections since a flag changed
  forwards,               \* history: forwards sent per backend while stable_since_init
  last_call               \* history: the last direct call of a SimpleBackend method

backendVars == <<backend_health, response_time_ms>>
poolVars == <<healthy_backends, unhealthy_backends, current_backend_index,
              backend_semaphore>>
requestVars == <<pc, backend, response, tried_backends>>
monitorVars == <<health_check_thread_running, mpc, mbackend, midx,
                 new_healthy_backends, new_unhealthy_backends>>
historyVars == <<holder, heap_stale, new_heap_stale, undefined_count, crashed,
                 failed_forward,
                 probed, entry_index, reads, stable_since_init, selections,
                 forwards, last_call>>
vars == <<algo, backends, backendVars, poolVars, requestVars, monitorVars,
          historyVars>>

Requests == 1..NumRequests
Tasks == 1..MaxTasks
Backends == 1..Len(backends)
Health == {"Healthy", "Unhealthy"}
\* The durations a probe or a forward may measure.  The round robin balancer
\* never reads response_time(), so its runs get a bound of their own.
Durations ==
  0..(IF algo = "RoundRobin" THEN MaxRoundRobinResponseTime ELSE MaxResponseTime)

\* What the upstream does with one HTTP request: it answers with a status,
\* or sendRequestCoro throws drogon::HttpException.
Statuses == {100, 200, 206, 207, 500}
Outcomes == [kind : {"response"}, status : Statuses]
              \cup {[kind |-> "exception", status |-> 0]}

NoOne == <<"none", 0>>
NoCall == [op |-> "none"]
Monitor(t) == <<"monitor", t>>
Request(r) == <<"request", r>>

-----------------------------------------------------------------------------
(* backend.cpp *)

InRange(status) == status >= k200OK /\ status <= k206PartialContent

update_health_from_status_code(h, status) ==
  IF InRange(status)
    THEN (IF h = "Unhealthy" THEN "Healthy" ELSE h)
    ELSE (IF h = "Healthy" THEN "Unhealthy" ELSE h)

\* A transport error that leaves the health flag alone.
HealthAfterIgnoringErrors(h, outcome) ==
  IF outcome.kind = "response"
    THEN (IF outcome.status >= k200OK /\ outcome.status <= k206PartialContent
            THEN "Healthy" ELSE "Unhealthy")
    ELSE h

\* backend_health after check_health or send_request saw `outcome`.
HealthAfter(h, outcome) ==
  IF outcome.kind = "response"
    THEN update_health_from_status_code(h, outcome.status)
    ELSE "Unhealthy"

\* A catch clause that matches nothing.
CaughtNothing(outcome) == FALSE

\* catch (const drogon::HttpException&) of check_health and send_request:
\* the exception sendRequestCoro raises is of that type.
Caught(outcome) == outcome.kind = "exception"

\* An exception leaves check_health or send_request.
Propagates(outcome) == outcome.kind = "exception" /\ ~Caught(outcome)

\* The upstream response handed on whatever its status.
ForwardStatusUpstream(outcome) ==
  IF outcome.kind = "response" THEN outcome.status ELSE k503ServiceUnavailable

\* The status of the response SimpleBackend::send_request returns.
ForwardStatus(outcome) ==
  IF outcome.kind = "response" /\ InRange(outcome.status)
    THEN outcome.status
    ELSE k503ServiceUnavailable

-----------------------------------------------------------------------------
(* std::priority_queue<shared_ptr<Backend>, vector, MinHeapBackendComparator>, *)
(* as a bag.  top() is an element no other element is ordered before; when     *)
(* a key changed while its element was inside (heap_stale) the heap order      *)
(* is no longer that of the keys and top() may be any element.                 *)

MinHeapBackendComparator(l, r) == response_time_ms[l] > response_time_ms[r]

EmptyBag == [b \in Backends |-> 0]
Members(q) == {b \in DOMAIN q : q[b] > 0}
IsEmpty(q) == Members(q) = {}
Push(q, b) == [q EXCEPT ![b] = @ + 1]
Pop(q, b) == [q EXCEPT ![b] = @ - 1]
Top(q, stale) ==
  IF stale
    THEN Members(q)
    ELSE {b \in Members(q) :
            \A x \in Members(q) : ~MinHeapBackendComparator(b, x)}

RECURSIVE BagSize(_, _)
BagSize(q, n) == IF n = 0 THEN 0 ELSE q[n] + BagSize(q, n - 1)
Size(q) == BagSize(q, Len(backends))

Occurrences(s, b) == Cardinality({i \in DOMAIN s : s[i] = b})


-----------------------------------------------------------------------------
(* SimpleBackend::check_health (probe) and SimpleBackend::send_request, from *)
(* the point where sendRequestCoro completes with `outcome` after `d` ms:    *)
(* the health flag and the response time are stored.                         *)

BackendCompletes(b, outcome, d, probe) ==
  IF Propagates(outcome)
  THEN UNCHANGED <<backend_health, response_time_ms, heap_stale, new_heap_stale,
                   failed_forward>>
  ELSE
  /\ backend_health' = [backend_health EXCEPT ![b] = HealthAfter(@, outcome)]
  /\ response_time_ms' = [response_time_ms EXCEPT ![b] = d]
  /\ heap_stale' = (heap_stale \/ (healthy_backends[b] > 0 /\ d # response_time_ms[b]))
  /\ new_heap_stale' =
       [t \in Tasks |-> new_heap_stale[t]
                          \/ (new_healthy_backends[t][b] > 0 /\ d # response_time_ms[b])]
  /\ failed_forward' =
       IF probe
         THEN (IF HealthAfter(backend_health[b], outcome) = "Healthy"
                 THEN failed_forward \ {b} ELSE failed_forward)
         ELSE (IF ForwardStatus(outcome) = k503ServiceUnavailable
                 THEN failed_forward \cup {b} ELSE failed_forward)

-----------------------------------------------------------------------------
(* std::counting_semaphore<1> backend_semaphore *)

\* A release that does not happen.
ReleaseSkipped == UNCHANGED <<backend_semaphore, holder>>

\* backend_semaphore.release().
Release == backend_semaphore' = 1 /\ holder' = NoOne

-----------------------------------------------------------------------------
(* Construction *)

InitCommon(max) ==
  /\ \E n \in 1..max :
       /\ backends = [i \in 1..n |-> i]
       /\ backend_health \in [1..n -> Health]
       /\ response_time_ms = [i \in 1..n |-> 0]
       /\ new_healthy_backends = [t \in Tasks |-> [i \in 1..n |-> 0]]
       /\ probed = [t \in Tasks |-> [i \in 1..n |-> 0]]
       /\ forwards = [i \in 1..n |-> 0]
  /\ unhealthy_backends = <<>>
  /\ current_backend_index = 0
  /\ backend_semaphore = 1
  /\ pc = [r \in Requests |-> "idle"]
  /\ backend = [r \in Requests |-> 0]
  /\ response = [r \in Requests |-> 0]
  /\ tried_backends = [r \in Requests |-> 0]
  /\ mbackend = [t \in Tasks |-> 0]
  /\ midx = [t \in Tasks |-> 0]
  /\ new_unhealthy_backends = [t \in Tasks |-> <<>>]
  /\ holder = NoOne
  /\ heap_stale = FALSE
  /\ new_heap_stale = [t \in Tasks |-> FALSE]
  /\ undefined_count = 0
  /\ crashed = FALSE
  /\ failed_forward = {}
  /\ entry_index = [r \in Requests |-> 0]
  /\ reads = [r \in Requests |-> <<>>]
  /\ stable_since_init = TRUE
  /\ selections = <<>>
  /\ last_call = NoCall

\* The constructors leave health_check_thread_running false and spawn nothing.
NotStarted ==
  /\ health_check_thread_running = FALSE
  /\ mpc = [t \in Tasks |-> "none"]

\* main calls start_health_checks once before it serves requests.
StartedOnce ==
  /\ health_check_thread_running = TRUE
  /\ mpc = [t \in Tasks |-> IF t = 1 THEN "spawned" ELSE "none"]

\* LeastResponseLoadBalancer's constructor pushes every backend it is given.
LeastResponseLoadBalancer ==
  /\ algo = "LeastResponse"
  /\ InitCommon(MaxLeastResponseBackends)
  /\ healthy_backends = [b \in Backends |-> 1]

-----------------------------------------------------------------------------
(* LeastResponseLoadBalancer::send_request, request r *)

\* Lines 91-94: the emptiness test, made without the semaphore.
LR_Test(r) ==
  /\ algo = "LeastResponse" /\ ~crashed
  /\ pc[r] = "idle"
  /\ pc' = [pc EXCEPT ![r] =
              IF IsEmpty(healthy_backends) THEN "thrown" ELSE "acquire"]
  /\ UNCHANGED <<algo, backends, backendVars, poolVars, backend, response,
                 tried_backends, monitorVars, historyVars>>

\* Line 96: backend_semaphore.acquire().
LR_Acquire(r) ==
  /\ algo = "LeastResponse" /\ ~crashed
  /\ pc[r] = "acquire"
  /\ backend_semaphore = 1
  /\ backend_semaphore' = 0
  /\ holder' = Request(r)
  /\ pc' = [pc EXCEPT ![r] = "select"]
  /\ UNCHANGED <<algo, backends, last_call, backendVars, healthy_backends, unhealthy_backends,
                 current_backend_index, backend, response, tried_backends,
                 monitorVars, heap_stale, new_heap_stale, undefined_count, crashed, failed_forward,
                 probed, entry_index, reads,
                 stable_since_init, selections, forwards>>

\* Lines 98-101: top(), pop(), and the forward is sent.
LR_Select(r) ==
  /\ algo = "LeastResponse" /\ ~crashed
  /\ pc[r] = "select"
  /\ ~IsEmpty(healthy_backends)
  /\ \E b \in Top(healthy_backends, heap_stale) :
       /\ backend' = [backend EXCEPT ![r] = b]
       /\ healthy_backends' = Pop(healthy_backends, b)
       /\ heap_stale' = (heap_stale /\ ~IsEmpty(Pop(healthy_backends, b)))
  /\ pc' = [pc EXCEPT ![r] = "forward"]
  /\ UNCHANGED <<algo, backends, last_call, backendVars, unhealthy_backends,
                 current_backend_index, backend_semaphore, response, tried_backends,
                 monitorVars, holder, new_heap_stale, undefined_count, crashed, failed_forward,
                 probed, entry_index, reads,
                 stable_since_init, selections, forwards>>

\* Lines 98-99 on an empty queue: undefined behaviour.  Either the process
\* dies, or top() yields what the vector's storage still holds, a reference
\* to some configured backend, and the queue is left empty.
LR_SelectUndefined(r) ==
  /\ algo = "LeastResponse" /\ ~crashed
  /\ pc[r] = "select"
  /\ IsEmpty(healthy_backends)
  /\ \/ /\ crashed' = TRUE
        /\ UNCHANGED <<pc, backend, undefined_count>>
     \/ /\ undefined_count < MaxUndefined
        /\ undefined_count' = undefined_count + 1
        /\ \E b \in Backends : backend' = [backend EXCEPT ![r] = b]
        /\ pc' = [pc EXCEPT ![r] = "forward"]
        /\ UNCHANGED crashed
  /\ UNCHANGED <<algo, backends, last_call, backendVars, poolVars, response, tried_backends,
                 monitorVars, holder, heap_stale, new_heap_stale, failed_forward, probed,
                 entry_index, reads,
                 stable_since_init, selections, forwards>>

\* Lines 101-113: backend->send_request(request) completes, the backend is
\* pushed back or moved to unhealthy_backends, the semaphore is released.
\* Were an exception to leave backend->send_request, it would leave this
\* function at line 101, past no release.
LR_ForwardReturns(r) ==
  /\ algo = "LeastResponse" /\ ~crashed
  /\ pc[r] = "forward"
  /\ \E outcome \in Outcomes, d \in Durations :
       /\ BackendCompletes(backend[r], outcome, d, FALSE)
       /\ IF Propagates(outcome)
            THEN /\ pc' = [pc EXCEPT ![r] = "thrown"]
                 /\ UNCHANGED <<response, healthy_backends, unhealthy_backends,
                                backend_semaphore, holder>>
            ELSE /\ response' = [response EXCEPT ![r] = ForwardStatus(outcome)]
                 /\ IF ForwardStatus(outcome) < k200OK
                       \/ ForwardStatus(outcome) > k206PartialContent
                      THEN /\ unhealthy_backends' =
                                Append(unhealthy_backends, backend[r])
                           /\ UNCHANGED healthy_backends
                      ELSE /\ healthy_backends' = Push(healthy_backends, backend[r])
                           /\ UNCHANGED unhealthy_backends
                 /\ Release
                 /\ pc' = [pc EXCEPT ![r] = "done"]
  /\ UNCHANGED <<algo, backends, last_call, current_backend_index, backend, tried_backends,
                 monitorVars, undefined_count, crashed, probed, entry_index,
                 reads, stable_since_init, selections, forwards>>

\* The response (or the exception) has reached the caller; the coroutine
\* frame is gone and the next request may come in.
Finish(r) ==
  /\ ~crashed
  /\ pc[r] \in {"done", "thrown"}
  /\ pc' = [pc EXCEPT ![r] = "idle"]
  /\ backend' = [backend EXCEPT ![r] = 0]
  /\ response' = [response EXCEPT ![r] = 0]
  /\ tried_backends' = [tried_backends EXCEPT ![r] = 0]
  /\ entry_index' = [entry_index EXCEPT ![r] = 0]
  /\ reads' = [reads EXCEPT ![r] = <<>>]
  /\ UNCHANGED <<algo, backends, last_call, backendVars, poolVars, monitorVars, holder,
                 heap_stale, new_heap_stale, undefined_count, crashed, failed_forward, probed,
                 stable_since_init, selections, forwards>>

-----------------------------------------------------------------------------
(* LeastResponseLoadBalancer::check_backend_healths, run by the coroutine of *)
(* start_health_checks in slot t                                             *)

\* Lines 74-75 and 20-27: the loop condition of the coroutine, evaluated
\* when it starts and after each sleep.  A cycle begins, or the coroutine
\* logs "Stopped health checks" and returns (lines 79-80).
LR_Wake(t) ==
  /\ algo = "LeastResponse" /\ ~crashed
  /\ mpc[t] \in {"spawned", "sleep"}
  /\ mpc' = [mpc EXCEPT ![t] =
               IF health_check_thread_running THEN "acquire" ELSE "stopped"]
  /\ UNCHANGED <<algo, backends, backendVars, poolVars, requestVars,
                 health_check_thread_running, mbackend, midx,
                 new_healthy_backends, new_unhealthy_backends, historyVars>>

\* Line 29.
LR_MonitorAcquire(t) ==
  /\ algo = "LeastResponse" /\ ~crashed
  /\ mpc[t] = "acquire"
  /\ backend_semaphore = 1
  /\ backend_semaphore' = 0
  /\ holder' = Monitor(t)
  /\ mpc' = [mpc EXCEPT ![t] = "healthy_loop"]
  /\ UNCHANGED <<algo, backends, last_call, backendVars, healthy_backends, unhealthy_backends,
                 current_backend_index, requestVars, health_check_thread_running,
                 mbackend, midx,
                 new_healthy_backends, new_unhealthy_backends, heap_stale,
                 new_heap_stale, undefined_count, crashed, failed_forward, probed, entry_index,
                 reads, stable_since_init, selections, forwards>>

\* Lines 32-36: the next healthy backend is popped and its probe is sent;
\* line 45 when the queue is empty.
LR_HealthyLoop(t) ==
  /\ algo = "LeastResponse" /\ ~crashed
  /\ mpc[t] = "healthy_loop"
  /\ \/ /\ ~IsEmpty(healthy_backends)
        /\ \E b \in Top(healthy_backends, heap_stale) :
             /\ mbackend' = [mbackend EXCEPT ![t] = b]
             /\ healthy_backends' = Pop(healthy_backends, b)
             /\ heap_stale' = (heap_stale /\ ~IsEmpty(Pop(healthy_backends, b)))
        /\ mpc' = [mpc EXCEPT ![t] = "await_healthy"]
        /\ UNCHANGED midx
     \/ /\ IsEmpty(healthy_backends)
        /\ mpc' = [mpc EXCEPT ![t] = "unhealthy_loop"]
        /\ midx' = [midx EXCEPT ![t] = 1]
        /\ UNCHANGED <<mbackend, healthy_backends, heap_stale>>
  /\ UNCHANGED <<algo, backends, last_call, backendVars, unhealthy_backends,
                 current_backend_index, backend_semaphore, requestVars,
                 health_check_thread_running,
                 new_healthy_backends, new_unhealthy_backends, holder,
                 new_heap_stale, undefined_count, crashed, failed_forward, probed, entry_index,
                 reads, stable_since_init, selections, forwards>>

\* Lines 36-42 and 47-54: check_health completes and the backend is put on
\* the new list its health flag names.  Were an exception to leave
\* check_health, nothing up to the coroutine of start_health_checks would
\* catch it: the coroutine would end inside the cycle, the semaphore taken.
LR_ProbeReturns(t) ==
  /\ algo = "LeastResponse" /\ ~crashed
  /\ mpc[t] \in {"await_healthy", "await_unhealthy"}
  /\ \E outcome \in Outcomes, d \in Durations :
       /\ BackendCompletes(mbackend[t], outcome, d, TRUE)
       /\ IF Propagates(outcome)
            THEN /\ mpc' = [mpc EXCEPT ![t] = "dead"]
                 /\ UNCHANGED <<new_healthy_backends, new_unhealthy_backends,
                                probed, mbackend, midx>>
            ELSE /\ IF HealthAfter(backend_health[mbackend[t]], outcome) = "Healthy"
                      THEN /\ new_healthy_backends' =
                                [new_healthy_backends EXCEPT
                                   ![t] = Push(@, mbackend[t])]
                           /\ UNCHANGED new_unhealthy_backends
                      ELSE /\ new_unhealthy_backends' =
                                [new_unhealthy_backends EXCEPT
                                   ![t] = Append(@, mbackend[t])]
                           /\ UNCHANGED new_healthy_backends
                 /\ probed' = [probed EXCEPT ![t][mbackend[t]] = @ + 1]
                 /\ mbackend' = [mbackend EXCEPT ![t] = 0]
                 /\ IF mpc[t] = "await_healthy"
                      THEN /\ mpc' = [mpc EXCEPT ![t] = "healthy_loop"]
                           /\ UNCHANGED midx
                      ELSE /\ mpc' = [mpc EXCEPT ![t] = "unhealthy_loop"]
                           /\ midx' = [midx EXCEPT ![t] = @ + 1]
  /\ UNCHANGED <<algo, backends, last_call, poolVars, requestVars, health_check_thread_running,
                 holder, undefined_count,
                 crashed, entry_index, reads,
                 stable_since_init, selections, forwards>>

\* Lines 46-47: the next unhealthy backend's probe is sent; lines 57-60
\* when the vector has been walked: both collections are replaced and the
\* semaphore is released.
LR_UnhealthyLoop(t) ==
  /\ algo = "LeastResponse" /\ ~crashed
  /\ mpc[t] = "unhealthy_loop"
  /\ \/ /\ midx[t] <= Len(unhealthy_backends)
        /\ mbackend' = [mbackend EXCEPT ![t] = unhealthy_backends[midx[t]]]
        /\ mpc' = [mpc EXCEPT ![t] = "await_unhealthy"]
        /\ UNCHANGED <<midx, poolVars, new_healthy_backends, new_unhealthy_backends,
                       holder, heap_stale, new_heap_stale>>
     \/ /\ midx[t] > Len(unhealthy_backends)
        /\ healthy_backends' = new_healthy_backends[t]
        /\ unhealthy_backends' = new_unhealthy_backends[t]
        /\ heap_stale' = new_heap_stale[t]
        /\ new_healthy_backends' = [new_healthy_backends EXCEPT ![t] = EmptyBag]
        /\ new_unhealthy_backends' = [new_unhealthy_backends EXCEPT ![t] = <<>>]
        /\ new_heap_stale' = [new_heap_stale EXCEPT ![t] = FALSE]
        /\ Release
        /\ midx' = [midx EXCEPT ![t] = 0]
        /\ mpc' = [mpc EXCEPT ![t] = "cycle_done"]
        /\ UNCHANGED <<mbackend, current_backend_index>>
  /\ UNCHANGED <<algo, backends, last_call, backendVars, requestVars,
                 health_check_thread_running, undefined_count, crashed, failed_forward,
                 probed, entry_index, reads,
                 stable_since_init, selections, forwards>>

\* Lines 62-66 and 76: the cycle has returned and the coroutine sleeps.
LR_Sleep(t) ==
  /\ algo = "LeastResponse" /\ ~crashed
  /\ mpc[t] = "cycle_done"
  /\ mpc' = [mpc EXCEPT ![t] = "sleep"]
  /\ probed' = [probed EXCEPT ![t] = [b \in Backends |-> 0]]
  /\ UNCHANGED <<algo, backends, last_call, backendVars, poolVars, requestVars,
                 health_check_thread_running, mbackend, midx,
                 new_healthy_backends, new_unhealthy_backends, holder, heap_stale,
                 new_heap_stale, undefined_count, crashed, failed_forward, entry_index, reads,
                 stable_since_init, selections, forwards>>

NextLR ==
  \/ \E r \in Requests :
       \/ LR_Test(r)
       \/ LR_Acquire(r)
       \/ LR_Select(r)
       \/ LR_SelectUndefined(r)
       \/ LR_ForwardReturns(r)
       \/ (algo = "LeastResponse" /\ Finish(r))
  \/ \E t \in Tasks :
       \/ LR_Wake(t)
       \/ LR_MonitorAcquire(t)
       \/ LR_HealthyLoop(t)
       \/ LR_ProbeReturns(t)
       \/ LR_UnhealthyLoop(t)
       \/ LR_Sleep(t)

InitLR == LeastResponseLoadBalancer /\ StartedOnce
SpecLR == InitLR /\ [][NextLR]_vars

\* The steps the program takes by itself.  The others, LR_ForwardReturns and
\* LR_ProbeReturns, wait for the upstream: sendRequestCoro is called with
\* no timeout (backend.cpp lines 18 and 46), so nothing but the upstream's
\* answer ends the wait, and an upstream need not answer.
ProgramStepLR ==
  \/ \E r \in Requests :
       \/ LR_Test(r)
       \/ LR_Acquire(r)
       \/ LR_Select(r)
       \/ LR_SelectUndefined(r)
       \/ (algo = "LeastResponse" /\ Finish(r))
  \/ \E t \in Tasks :
       \/ LR_Wake(t)
       \/ LR_MonitorAcquire(t)
       \/ LR_HealthyLoop(t)
       \/ LR_UnhealthyLoop(t)
       \/ LR_Sleep(t)

\* The event loop runs every coroutine that can run.
FairSpecLR == InitLR /\ [][NextLR]_vars /\ WF_vars(ProgramStepLR)

-----------------------------------------------------------------------------
(* LeastResponseLoadBalancer on a pool of worker threads *)

\* The coroutines that occupy a worker thread: those running between two
\* suspension points and those inside backend_semaphore.acquire(), a
\* std::counting_semaphore, which blocks the calling thread.  A coroutine
\* suspended in co_await (the forward, a probe, the sleep) occupies none.
OnThread ==
  {Request(r) : r \in {q \in Requests :
                         pc[q] \in {"acquire", "select", "done", "thrown"}}}
    \cup
  {Monitor(t) : t \in {u \in Tasks :
                         mpc[u] \in {"acquire", "healthy_loop",
                                     "unhealthy_loop", "cycle_done"}}}

\* The coroutines whose thread is blocked inside acquire().
BlockedInAcquire ==
  IF backend_semaphore = 1 THEN {}
  ELSE {Request(r) : r \in {q \in Requests : pc[q] = "acquire"}}
         \cup {Monitor(t) : t \in {u \in Tasks : mpc[u] = "acquire"}}

\* A handler that starts or a coroutine that is resumed needs a thread that
\* is not occupied; any such thread will do.
FreeThread == Cardinality(OnThread) < NumThreads

\* drogon runs the handler of an arriving request on a worker thread.
HandlerStarts(r) == FreeThread /\ LR_Test(r)

\* The forward's response arrives and a worker thread resumes send_request.
ForwardResumes(r) == FreeThread /\ LR_ForwardReturns(r)

\* A worker thread starts the monitor's coroutine, or resumes it when its
\* sleep is over.
MonitorResumes(t) == FreeThread /\ LR_Wake(t)

\* The probe's response arrives and a worker thread resumes
\* check_backend_healths.
ProbeResumes(t) == FreeThread /\ LR_ProbeReturns(t)

NextThreadsLR ==
  \/ \E r \in Requests :
       \/ HandlerStarts(r)
       \/ LR_Acquire(r)
       \/ LR_Select(r)
       \/ LR_SelectUndefined(r)
       \/ ForwardResumes(r)
       \/ (algo = "LeastResponse" /\ Finish(r))
  \/ \E t \in Tasks :
       \/ MonitorResumes(t)
       \/ LR_MonitorAcquire(t)
       \/ LR_HealthyLoop(t)
       \/ ProbeResumes(t)
       \/ LR_UnhealthyLoop(t)
       \/ LR_Sleep(t)

SpecThreadsLR == InitLR /\ [][NextThreadsLR]_vars

-----------------------------------------------------------------------------
(* RoundRobinLoadBalancer *)

RoundRobinLoadBalancer ==
  /\ algo = "RoundRobin"
  /\ InitCommon(MaxRoundRobinBackends)
  /\ healthy_backends = [b \in Backends |-> 0]

\* A cursor that advances by two.
NextIndexSkips(i, n) == (i + 2) % n

\* A cursor that is reduced but not advanced.
NextIndexStuck(i, n) == i % n

\* Lines 28 and 42: (current_backend_index + 1) % backends.size().
NextIndex(i, n) == (i + 1) % n

\* A scan that gives up one read late.
GivesUpLate(tried, n) == tried > n

\* Line 31: tried_backends >= (int)backends.size().
GivesUp(tried, n) == tried >= n

\* History: a selection is added to the window of the last |backends| + 1.
Selected(b) ==
  IF Len(selections) < Len(backends) + 1
    THEN /\ selections' = Append(selections, b)
         /\ UNCHANGED <<stable_since_init, forwards>>
    ELSE /\ selections' = Append(Tail(selections), b)
         /\ stable_since_init' = FALSE
         /\ forwards' = [x \in Backends |-> 0]

\* History: the window starts again when a health flag changes.
FlagsSeen(b, outcome) ==
  IF ~Propagates(outcome) /\ HealthAfter(backend_health[b], outcome) # backend_health[b]
    THEN /\ selections' = <<>>
         /\ stable_since_init' = FALSE
         /\ forwards' = [x \in Backends |-> 0]
    ELSE UNCHANGED <<selections, stable_since_init, forwards>>

\* next_available_backend, lines 21-23: the semaphore is acquired.
RR_Acquire(r) ==
  /\ algo = "RoundRobin"
  /\ pc[r] = "idle"
  /\ backend_semaphore = 1
  /\ backend_semaphore' = 0
  /\ holder' = Request(r)
  /\ tried_backends' = [tried_backends EXCEPT ![r] = 0]
  /\ entry_index' = [entry_index EXCEPT ![r] = current_backend_index]
  /\ pc' = [pc EXCEPT ![r] = "scan"]
  /\ UNCHANGED <<algo, backends, last_call, backendVars, healthy_backends, unhealthy_backends,
                 current_backend_index, backend, response, monitorVars, heap_stale,
                 new_heap_stale, undefined_count, crashed, failed_forward, probed, reads,
                 stable_since_init, selections, forwards>>

\* next_available_backend, lines 24-47: one evaluation of the loop
\* condition, which reads the health flag of the backend under the cursor,
\* and what follows it up to the next evaluation, the throw or the return.
RR_Scan(r) ==
  /\ algo = "RoundRobin"
  /\ pc[r] = "scan"
  /\ LET i == current_backend_index
         n == Len(backends)
         b == backends[i + 1]
         h == backend_health[b]
     IN  /\ reads' = [reads EXCEPT ![r] = Append(@, <<b, h>>)]
         /\ current_backend_index' = NextIndex(i, n)
         /\ IF h = "Unhealthy"
              THEN /\ tried_backends' = [tried_backends EXCEPT ![r] = @ + 1]
                   /\ IF GivesUp(tried_backends[r] + 1, n)
                        THEN /\ Release
                             /\ pc' = [pc EXCEPT ![r] = "thrown"]
                        ELSE UNCHANGED <<backend_semaphore, holder, pc>>
                   /\ UNCHANGED <<backend, selections, stable_since_init, forwards>>
              ELSE /\ backend' = [backend EXCEPT ![r] = b]
                   /\ Release
                   /\ pc' = [pc EXCEPT ![r] = "selected"]
                   /\ Selected(b)
                   /\ UNCHANGED tried_backends
  /\ UNCHANGED <<algo, backends, last_call, backendVars, healthy_backends, unhealthy_backends,
                 response, monitorVars, heap_stale, new_heap_stale, undefined_count,
                 crashed, failed_forward, probed, entry_index>>

\* send_request, lines 92-96: next_available_backend has returned, its
\* locals are gone, and the forward is sent.
RR_Send(r) ==
  /\ algo = "RoundRobin"
  /\ pc[r] = "selected"
  /\ pc' = [pc EXCEPT ![r] = "forward"]
  /\ tried_backends' = [tried_backends EXCEPT ![r] = 0]
  /\ entry_index' = [entry_index EXCEPT ![r] = 0]
  /\ reads' = [reads EXCEPT ![r] = <<>>]
  /\ forwards' = IF stable_since_init
                   THEN [forwards EXCEPT ![backend[r]] = @ + 1]
                   ELSE forwards
  /\ UNCHANGED <<algo, backends, last_call, backendVars, poolVars, backend, response,
                 monitorVars, holder, heap_stale, new_heap_stale, undefined_count,
                 crashed, failed_forward, probed, stable_since_init, selections>>

\* send_request, lines 96-98: backend->send_request(request) completes.
RR_ForwardReturns(r) ==
  /\ algo = "RoundRobin"
  /\ pc[r] = "forward"
  /\ \E outcome \in Outcomes, d \in Durations :
       /\ BackendCompletes(backend[r], outcome, d, FALSE)
       /\ FlagsSeen(backend[r], outcome)
       /\ IF Propagates(outcome)
            THEN /\ pc' = [pc EXCEPT ![r] = "thrown"]
                 /\ UNCHANGED response
            ELSE /\ response' = [response EXCEPT ![r] = ForwardStatus(outcome)]
                 /\ pc' = [pc EXCEPT ![r] = "done"]
  /\ UNCHANGED <<algo, backends, last_call, poolVars, backend, tried_backends, monitorVars,
                 holder, undefined_count, crashed, probed, entry_index, reads>>

\* start_health_checks lines 70-72 and check_backend_healths lines 51-56:
\* the loop condition of the coroutine in slot t, evaluated when it starts
\* and after each sleep.  The first backend's probe is sent, or the
\* coroutine logs "Stopped health checks" and returns (lines 79-80).
RR_Wake(t) ==
  /\ algo = "RoundRobin"
  /\ mpc[t] \in {"spawned", "sleep"}
  /\ IF health_check_thread_running
       THEN /\ mpc' = [mpc EXCEPT ![t] = "await"]
            /\ midx' = [midx EXCEPT ![t] = 1]
            /\ mbackend' = [mbackend EXCEPT ![t] = backends[1]]
       ELSE /\ mpc' = [mpc EXCEPT ![t] = "stopped"]
            /\ UNCHANGED <<midx, mbackend>>
  /\ UNCHANGED <<algo, backends, backendVars, poolVars, requestVars,
                 health_check_thread_running,
                 new_healthy_backends, new_unhealthy_backends, historyVars>>

\* check_backend_healths lines 55-57: check_health completes and the next
\* backend's probe is sent, or the walk is over.  Were an exception to leave
\* check_health, the catch of start_health_checks (line 73) would end the
\* cycle there.
RR_ProbeReturns(t) ==
  /\ algo = "RoundRobin"
  /\ mpc[t] = "await"
  /\ \E outcome \in Outcomes, d \in Durations :
       /\ BackendCompletes(mbackend[t], outcome, d, TRUE)
       /\ FlagsSeen(mbackend[t], outcome)
       /\ IF Propagates(outcome)
            THEN /\ midx' = [midx EXCEPT ![t] = 0]
                 /\ mbackend' = [mbackend EXCEPT ![t] = 0]
                 /\ mpc' = [mpc EXCEPT ![t] = "cycle_done"]
                 /\ UNCHANGED probed
            ELSE /\ probed' = [probed EXCEPT ![t][mbackend[t]] = @ + 1]
                 /\ IF midx[t] < Len(backends)
                      THEN /\ midx' = [midx EXCEPT ![t] = @ + 1]
                           /\ mbackend' = [mbackend EXCEPT ![t] = backends[midx[t] + 1]]
                           /\ UNCHANGED mpc
                      ELSE /\ midx' = [midx EXCEPT ![t] = 0]
                           /\ mbackend' = [mbackend EXCEPT ![t] = 0]
                           /\ mpc' = [mpc EXCEPT ![t] = "cycle_done"]
  /\ UNCHANGED <<algo, backends, last_call, poolVars, requestVars, health_check_thread_running,
                 new_healthy_backends,
                 new_unhealthy_backends, holder, undefined_count, crashed,
                 entry_index, reads>>

\* check_backend_healths lines 59-62 and start_health_checks line 76.
RR_Sleep(t) ==
  /\ algo = "RoundRobin"
  /\ mpc[t] = "cycle_done"
  /\ mpc' = [mpc EXCEPT ![t] = "sleep"]
  /\ probed' = [probed EXCEPT ![t] = [b \in Backends |-> 0]]
  /\ UNCHANGED <<algo, backends, last_call, backendVars, poolVars, requestVars,
                 health_check_thread_running, mbackend, midx,
                 new_healthy_backends, new_unhealthy_backends, holder, heap_stale,
                 new_heap_stale, undefined_count, crashed, failed_forward, entry_index, reads,
                 stable_since_init, selections, forwards>>

NextRR ==
  \/ \E r \in Requests :
       \/ RR_Acquire(r)
       \/ RR_Scan(r)
       \/ RR_Send(r)
       \/ RR_ForwardReturns(r)
       \/ (algo = "RoundRobin" /\ Finish(r))
  \/ \E t \in Tasks :
       \/ RR_Wake(t)
       \/ RR_ProbeReturns(t)
       \/ RR_Sleep(t)

InitRR == RoundRobinLoadBalancer /\ StartedOnce
SpecRR == InitRR /\ [][NextRR]_vars

-----------------------------------------------------------------------------
(* The program is started with one balancer or the other. *)

Init == InitLR \/ InitRR
Next == NextLR \/ NextRR
Spec == Init /\ [][Next]_vars

-----------------------------------------------------------------------------
(* start_health_checks and stop_health_checks, called in any order on a     *)
(* balancer that serves no request meanwhile.  Each start spawns a          *)
(* coroutine; the model has room for MaxTasks of them at a time.            *)

\* The slot the next coroutine goes to.
FreeSlots == {t \in Tasks : mpc[t] \in {"none", "stopped"}}

\* Lines 70-81 (least response), 66-81 (round robin): the flag is set and
\* drogon::async_run starts one more coroutine.
start_health_checks ==
  /\ ~crashed
  /\ FreeSlots # {}
  /\ health_check_thread_running' = TRUE
  /\ LET t == CHOOSE t \in FreeSlots : \A u \in FreeSlots : t <= u
     IN  mpc' = [mpc EXCEPT ![t] = "spawned"]
  /\ UNCHANGED <<algo, backends, backendVars, poolVars, requestVars, mbackend, midx,
                 new_healthy_backends, new_unhealthy_backends, historyVars>>

\* Lines 84-87: the flag is cleared.
stop_health_checks ==
  /\ ~crashed
  /\ health_check_thread_running' = FALSE
  /\ UNCHANGED <<algo, backends, backendVars, poolVars, requestVars, mpc, mbackend,
                 midx, new_healthy_backends, new_unhealthy_backends, historyVars>>

NextMonitor ==
  \/ start_health_checks
  \/ stop_health_checks
  \/ \E t \in Tasks :
       \/ LR_Wake(t)
       \/ LR_MonitorAcquire(t)
       \/ LR_HealthyLoop(t)
       \/ LR_ProbeReturns(t)
       \/ LR_UnhealthyLoop(t)
       \/ LR_Sleep(t)
       \/ RR_Wake(t)
       \/ RR_ProbeReturns(t)
       \/ RR_Sleep(t)

\* A balancer of either kind as its constructor leaves it.
Constructed == (LeastResponseLoadBalancer \/ RoundRobinLoadBalancer) /\ NotStarted

SpecMonitor == Constructed /\ [][NextMonitor]_vars

-----------------------------------------------------------------------------
(* SimpleBackend on its own: check_health and send_request called directly *)
(* on backends that no balancer holds, one call at a time.                  *)

SimpleBackend ==
  /\ algo = "Backend"
  /\ InitCommon(MaxLeastResponseBackends)
  /\ healthy_backends = [b \in Backends |-> 0]
  /\ NotStarted

\* SimpleBackend::check_health, lines 11-33.
check_health(b) ==
  /\ algo = "Backend"
  /\ \E outcome \in Outcomes, d \in Durations :
       /\ BackendCompletes(b, outcome, d, TRUE)
       /\ last_call' = [op |-> "check_health", backend |-> b,
                        before |-> backend_health[b], outcome |-> outcome,
                        elapsed |-> d, raised |-> Propagates(outcome),
                        returned |-> 0]
  /\ UNCHANGED <<algo, backends, poolVars, requestVars, monitorVars, holder,
                 undefined_count, crashed, probed, entry_index, reads,
                 stable_since_init, selections, forwards>>

\* SimpleBackend::send_request, lines 37-65.
send_request(b) ==
  /\ algo = "Backend"
  /\ \E outcome \in Outcomes, d \in Durations :
       /\ BackendCompletes(b, outcome, d, FALSE)
       /\ last_call' = [op |-> "send_request", backend |-> b,
                        before |-> backend_health[b], outcome |-> outcome,
                        elapsed |-> d, raised |-> Propagates(outcome),
                        returned |-> IF Propagates(outcome)
                                       THEN 0 ELSE ForwardStatus(outcome)]
  /\ UNCHANGED <<algo, backends, poolVars, requestVars, monitorVars, holder,
                 undefined_count, crashed, probed, entry_index, reads,
                 stable_since_init, selections, forwards>>

NextBackend ==
  \/ \E b \in Backends : check_health(b)
  \/ \E b \in Backends : send_request(b)

SpecBackend == SimpleBackend /\ [][NextBackend]_vars

-----------------------------------------------------------------------------
(* Properties *)

IsHealthy(b) == backend_health[b] = "Healthy"
HealthySet == {b \in Backends : IsHealthy(b)}

\* The backend at 0-based position i of the configured vector.
At(i) == backends[(i % Len(backends)) + 1]

\* The first healthy backend after b in configured order, cyclically.
NextHealthyAfter(b) ==
  LET k == CHOOSE k \in 1..Len(backends) :
             /\ IsHealthy(At(b - 1 + k))
             /\ \A j \in 1..(k - 1) : ~IsHealthy(At(b - 1 + j))
  IN  At(b - 1 + k)

\* C1: in the least-response balancer every configured backend is, in every
\* reachable state, in exactly one of healthy_backends and
\* unhealthy_backends, and the two sizes add up to the number configured.
C1_ExactlyOnePartitionAlways ==
  algo = "LeastResponse" =>
    /\ \A b \in Backends :
         (healthy_backends[b] > 0) # (Occurrences(unhealthy_backends, b) > 0)
    /\ Size(healthy_backends) + Len(unhealthy_backends) = Len(backends)

\* C2: whenever backend_semaphore is free, healthy_backends and
\* unhealthy_backends together hold each configured backend exactly once.
C2_PartitionAtRest ==
  (algo = "LeastResponse" /\ backend_semaphore = 1) =>
    \A b \in Backends :
      healthy_backends[b] + Occurrences(unhealthy_backends, b) = 1

\* C3: every step in which send_request takes a backend from a non-empty
\* healthy_backends takes one with the least response_time() among the
\* backends in healthy_backends at that moment.
C3_SelectsLeastResponseTime ==
  [][\A r \in Requests :
       (pc[r] = "select" /\ pc'[r] = "forward" /\ ~IsEmpty(healthy_backends)) =>
         \A x \in Members(healthy_backends) :
           response_time_ms[x] >= response_time_ms[backend'[r]]]_vars

\* C4: in the round robin balancer, the selections made since a health flag
\* last changed follow the healthy backends in configured order as a
\* rotation, any h of them in a row are the h healthy backends, and from
\* construction with all backends healthy they are 1, 2, .., n, 1.
C4_RoundRobinRotation ==
  algo = "RoundRobin" =>
    LET h == Cardinality(HealthySet)
        len == Len(selections)
    IN  /\ \A i \in 1..len : selections[i] \in HealthySet
        /\ \A i \in 1..(len - 1) :
             selections[i + 1] = NextHealthyAfter(selections[i])
        /\ \A i \in 1..(len - h + 1) :
             {selections[j] : j \in i..(i + h - 1)} = HealthySet
        /\ (stable_since_init /\ HealthySet = Backends) =>
             \A i \in 1..len : selections[i] = At(i - 1)

\* C4's case: three backends, all healthy since construction, and the four
\* selections A, B, C, A have been made.
C4_Witness ==
  /\ algo = "RoundRobin"
  /\ stable_since_init
  /\ selections = <<1, 2, 3, 1>>

\* C5: a send_request that holds the semaphore and is about to execute
\* top() and pop() never finds healthy_backends empty.
C5_SelectionNeverOnEmpty ==
  \A r \in Requests : pc[r] = "select" => ~IsEmpty(healthy_backends)

\* C6: no request holds backend_semaphore while its forward is in flight.
C6_NoForwardUnderSemaphore ==
  \A r \in Requests : pc[r] = "forward" => holder # Request(r)

\* C7: a backend on which a forward failed is excluded from selection until
\* a probe of it succeeds (least response: in unhealthy_backends and not in
\* healthy_backends; round robin: its flag is Unhealthy), and the client of
\* a failed forward receives 503.
C7_DemotedUntilProbed ==
  /\ \A b \in failed_forward :
       IF algo = "LeastResponse"
         THEN healthy_backends[b] = 0 /\ Occurrences(unhealthy_backends, b) > 0
         ELSE backend_health[b] = "Unhealthy"
  /\ \A r \in Requests :
       (pc[r] = "done" /\ ~InRange(response[r])) =>
         response[r] = k503ServiceUnavailable

\* C8: a send_request that comes to select while no backend is healthy
\* throws and leaves the pool as it was: the partitions and the health flags
\* unchanged and the semaphore not held by it (least response), the cursor
\* back where the scan began and the semaphore released (round robin).
C8_PoolEmptyLeavesPool ==
  [][\A r \in Requests :
       /\ (/\ algo = "LeastResponse"
           /\ IsEmpty(healthy_backends)
           /\ pc[r] \in {"idle", "select"}
           /\ pc'[r] # pc[r])
            => /\ pc'[r] = "thrown"
               /\ UNCHANGED <<healthy_backends, unhealthy_backends, backend_health>>
               /\ holder' # Request(r)
       /\ (algo = "RoundRobin" /\ pc[r] = "scan" /\ pc'[r] = "thrown")
            => /\ current_backend_index' = entry_index[r]
               /\ UNCHANGED backend_health
               /\ backend_semaphore' = 1]_vars

\* C9: next_available_backend reads consecutive positions from the cursor,
\* returns the backend it read as Healthy after reading every position
\* before it as Unhealthy, and throws only after |backends| Unhealthy reads.
C9_ReturnsFirstHealthyRead ==
  \A r \in Requests :
    LET k == Len(reads[r]) IN
    /\ \A j \in 1..k : reads[r][j][1] = At(entry_index[r] + j - 1)
    /\ pc[r] = "selected" =>
         /\ k >= 1
         /\ reads[r][k] = <<backend[r], "Healthy">>
         /\ \A j \in 1..(k - 1) : reads[r][j][2] = "Unhealthy"
    /\ pc[r] = "thrown" =>
         /\ k = Len(backends)
         /\ \A j \in 1..k : reads[r][j][2] = "Unhealthy"

\* C9's case: one call has returned a backend after skipping an unhealthy
\* one while another call has thrown.
C9_Witness ==
  /\ algo = "RoundRobin"
  /\ \E r1, r2 \in Requests :
       /\ pc[r1] = "selected" /\ Len(reads[r1]) >= 2
       /\ pc[r2] = "thrown"

\* C10: when a least-response monitor cycle has completed, every configured
\* backend was probed exactly once in it, every backend in healthy_backends
\* is Healthy and every backend in unhealthy_backends is Unhealthy.
C10_CycleMatchesProbes ==
  \A t \in Tasks :
  (algo = "LeastResponse" /\ mpc[t] = "cycle_done") =>
    \A b \in Backends :
      /\ probed[t][b] = 1
      /\ healthy_backends[b] > 0 => IsHealthy(b)
      /\ Occurrences(unhealthy_backends, b) > 0 => ~IsHealthy(b)

\* The upstream answered the last direct call with a status in [200,206].
AnsweredInRange ==
  last_call.outcome.kind = "response" /\ InRange(last_call.outcome.status)

\* C11: SimpleBackend::send_request raises nothing for any upstream outcome;
\* it returns the upstream status when that is in [200,206], and then the
\* backend is Healthy, and 503 otherwise, and then the backend is Unhealthy.
C11_SendRequestContract ==
  last_call.op = "send_request" =>
    /\ ~last_call.raised
    /\ InRange(last_call.returned) \/ last_call.returned = k503ServiceUnavailable
    /\ AnsweredInRange =>
         /\ last_call.returned = last_call.outcome.status
         /\ backend_health[last_call.backend] = "Healthy"
    /\ ~AnsweredInRange =>
         /\ last_call.returned = k503ServiceUnavailable
         /\ backend_health[last_call.backend] = "Unhealthy"

\* C11's case: a send_request on a Healthy backend met a transport error.
C11_Witness ==
  /\ last_call.op = "send_request"
  /\ last_call.before = "Healthy"
  /\ last_call.outcome.kind = "exception"
  /\ last_call.returned = k503ServiceUnavailable

\* C12: after check_health the backend is Healthy exactly when the probe
\* was answered with a status in [200,206], whatever its health was before,
\* and response_time() is the elapsed time of that probe on every outcome.
C12_CheckHealthContract ==
  last_call.op = "check_health" =>
    /\ ~last_call.raised
    /\ backend_health[last_call.backend] = "Healthy" <=> AnsweredInRange
    /\ response_time_ms[last_call.backend] = last_call.elapsed

\* C12's case: a probe of a Healthy backend failed with a transport error
\* after a time that differs from the response time stored before.
C12_Witness ==
  /\ last_call.op = "check_health"
  /\ last_call.before = "Healthy"
  /\ last_call.outcome.kind = "exception"
  /\ last_call.elapsed = MaxResponseTime
  /\ backend_health[last_call.backend] = "Unhealthy"

RECURSIVE SumTo(_, _)
SumTo(f, n) == IF n = 0 THEN 0 ELSE f[n] + SumTo(f, n - 1)

\* All backends have been healthy since construction and every selection
\* made since then is on record.
AllHealthyAllAlong ==
  algo = "RoundRobin" /\ stable_since_init /\ HealthySet = Backends

\* The tally of forwards while every backend answers in range: no call has
\* thrown, consecutive selections differ, every selection is followed by
\* exactly one forward, and once the forwards are all sent the counts per
\* backend differ by at most one.
EvenForwards ==
  AllHealthyAllAlong =>
    /\ \A r \in Requests : pc[r] # "thrown"
    /\ Len(backends) >= 2 =>
         \A i \in 1..(Len(selections) - 1) : selections[i + 1] # selections[i]
    /\ SumTo(forwards, Len(backends))
         + Cardinality({r \in Requests : pc[r] = "selected"}) = Len(selections)
    /\ (\A r \in Requests : pc[r] # "selected") =>
         \A a, b \in Backends : forwards[a] - forwards[b] <= 1

\* A backend stops being Healthy only in a step in which a forward to it
\* comes back as 503 or a probe of it completes.
DemotedOnlyByFailure ==
  \A b \in Backends :
    (IsHealthy(b) /\ ~IsHealthy(b)') =>
      \/ \E r \in Requests :
           /\ pc[r] = "forward" /\ backend[r] = b
           /\ pc'[r] = "done" /\ response'[r] = k503ServiceUnavailable
      \/ \E t \in Tasks : mpc[t] = "await" /\ mbackend[t] = b

\* C13: concurrent round robin requests against backends that are all
\* healthy and answer in range get one forward each, consecutive selections
\* are different backends, the forwards per backend differ by at most one,
\* and no backend is demoted by an answer in range.
C13_EvenForwardsUnderConcurrency ==
  [][EvenForwards' /\ DemotedOnlyByFailure]_vars

\* C13's case: three backends, all healthy all along, four forwards sent by
\* two concurrent callers and answered: two to the first, one to each other.
C13_Witness ==
  /\ AllHealthyAllAlong
  /\ forwards = <<2, 1, 1>>
  /\ \A r \in Requests : pc[r] = "done"

\* C14: a second request that arrives while a first one is being forwarded
\* and another backend is in healthy_backends is not held up by the first:
\* the first does not hold the semaphore the second has to acquire.
C14_SecondRequestNotHeldUp ==
  \A r1, r2 \in Requests :
    (/\ r1 # r2
     /\ pc[r1] = "forward"
     /\ pc[r2] = "acquire"
     /\ ~IsEmpty(healthy_backends)) => holder # Request(r1)

\* C15: no monitor task holds backend_semaphore while a check_health probe
\* of its cycle is in flight.
C15_ProbeOutsideSemaphore ==
  \A t \in Tasks :
    mpc[t] \in {"await_healthy", "await_unhealthy"} => holder # Monitor(t)

\* The monitor coroutines that exist, and those inside a cycle.
Alive == {t \in Tasks : mpc[t] \notin {"none", "stopped"}}
Probing == {t \in Tasks : mpc[t] \in {"healthy_loop", "await_healthy",
                                      "unhealthy_loop", "await_unhealthy",
                                      "await"}}

\* C16: whatever the sequence of start_health_checks and stop_health_checks
\* calls, at most one monitor coroutine exists and at most one monitor cycle
\* is probing at any time.
C16_AtMostOneMonitor ==
  /\ Cardinality(Alive) <= 1
  /\ Cardinality(Probing) <= 1

\* The coroutine in slot t sends a probe in this step.
ProbeSent(t) == mbackend'[t] # 0 /\ mbackend'[t] # mbackend[t]

\* C17: once stop_health_checks has been called and no start follows, a
\* monitor coroutine sends no further probe and begins no further sleep.
C17_StopEndsTheTask ==
  [][(~health_check_thread_running /\ ~health_check_thread_running') =>
       \A t \in Tasks :
         /\ ~ProbeSent(t)
         /\ ~(mpc[t] = "cycle_done" /\ mpc'[t] = "sleep")]_vars

\* The probe the coroutine in slot t awaited completes in this step and
\* leaves its backend Unhealthy.
ProbeFails(t) ==
  /\ mpc[t] \in {"await_healthy", "await_unhealthy", "await"}
  /\ mpc'[t] # mpc[t] \/ mbackend'[t] # mbackend[t]
  /\ backend_health'[mbackend[t]] = "Unhealthy"

\* C18: a failing probe does not end the monitor: the coroutine goes on with
\* the cycle (in the round robin balancer, with the probe of the next
\* backend), a completed cycle has probed every backend and left the
\* semaphore to others, and the coroutine never ends inside a cycle.
C18_FailingProbeDoesNotStopMonitor ==
  [][\A t \in Tasks :
       /\ ProbeFails(t) =>
            /\ mpc'[t] \in {"healthy_loop", "unhealthy_loop", "await", "cycle_done"}
            /\ (algo = "RoundRobin" /\ midx[t] < Len(backends)) =>
                 mbackend'[t] = backends[midx[t] + 1]
       /\ mpc'[t] # "dead"
       /\ mpc'[t] = "cycle_done" =>
            /\ \A b \in Backends : probed'[t][b] >= 1
            /\ holder' # Monitor(t)
       /\ mpc[t] = "cycle_done" => mpc'[t] \in {"cycle_done", "sleep"}
       /\ (mpc[t] = "sleep" /\ health_check_thread_running) =>
            mpc'[t] \in {"sleep", "acquire", "await"}]_vars

\* C18's case: the only monitor coroutine has completed a cycle over at
\* least two backends in which the probe of the first one failed.
C18_Witness ==
  /\ \E t \in Tasks :
       /\ Alive = {t}
       /\ mpc[t] = "cycle_done"
       /\ \A b \in Backends : probed[t][b] >= 1
  /\ Len(backends) >= 2
  /\ ~IsHealthy(backends[1])
  /\ backend_semaphore = 1

\* C19: every forward and every probe comes to an end, whether or not the
\* upstream ever answers.
C19_EveryCallCompletes ==
  /\ \A r \in Requests : (pc[r] = "forward") ~> (pc[r] # "forward")
  /\ \A t \in Tasks :
       (mpc[t] \in {"await_healthy", "await_unhealthy"})
         ~> (mpc[t] \notin {"await_healthy", "await_unhealthy"})

\* The requests and the monitor coroutines that are between the acquire
\* and the release of an operation that takes backend_semaphore:
\* next_available_backend, LeastResponseLoadBalancer::send_request and
\* LeastResponseLoadBalancer::check_backend_healths.
Acquired ==
  {Request(r) : r \in {r \in Requests : pc[r] \in {"scan", "select"}
                                         \/ (algo = "LeastResponse"
                                             /\ pc[r] = "forward")}}
    \cup {Monitor(t) : t \in {t \in Tasks :
                                mpc[t] \in {"healthy_loop", "await_healthy",
                                            "unhealthy_loop", "await_unhealthy"}}}

\* C20: backend_semaphore is held only by an operation that is between its
\* acquire and its release; an operation that has returned or thrown,
\* whatever the forward or the probe it awaited came to, holds it no longer,
\* and when no operation is in progress the count is 1.
C20_SemaphoreReleasedOnEveryExit ==
  /\ holder = NoOne <=> backend_semaphore = 1
  /\ holder # NoOne => holder \in Acquired
  /\ Acquired = {} => backend_semaphore = 1
  /\ \A r \in Requests :
       pc[r] \in {"idle", "selected", "done", "thrown"} => holder # Request(r)

\* C20's case: a least response send_request whose forward failed has
\* returned 503, another call has thrown, no operation is in progress and
\* the semaphore is free.
C20_Witness ==
  /\ algo = "LeastResponse"
  /\ \E r1, r2 \in Requests :
       /\ pc[r1] = "done" /\ response[r1] = k503ServiceUnavailable
       /\ pc[r2] = "thrown"
  /\ Acquired = {}
  /\ backend_semaphore = 1


\* A backend a request can be given: its flag is Healthy and it is on no
\* unhealthy list, the pool's or a running cycle's.
Selectable(b) ==
  /\ IsHealthy(b)
  /\ Occurrences(unhealthy_backends, b) = 0
  /\ \A t \in Tasks : Occurrences(new_unhealthy_backends[t], b) = 0

\* A probe of monitor t on backend b is answered in this step and turns the
\* flag from Unhealthy to Healthy.
Recovers(t, b) ==
  /\ probed'[t][b] = probed[t][b] + 1
  /\ ~IsHealthy(b)
  /\ backend_health'[b] = "Healthy"

\* The cycle of a least-response monitor puts a backend that recovers on its
\* new healthy queue, and publishes that queue when it completes.
RecoveredIsPublished ==
  \A t \in Tasks :
    /\ \A b \in Backends :
         (algo = "LeastResponse" /\ Recovers(t, b)) =>
           new_healthy_backends'[t][b] > 0
    /\ (algo = "LeastResponse" /\ mpc[t] = "unhealthy_loop"
          /\ mpc'[t] = "cycle_done") =>
         /\ healthy_backends' = new_healthy_backends[t]
         /\ backend_semaphore' = 1

\* A request is refused with "No healthy backends available" only when no
\* backend is selectable; a round robin scan that reads a Healthy flag
\* returns that backend.
RefusedOnlyWithoutSelectable ==
  \A r \in Requests :
    /\ (algo = "LeastResponse" /\ pc[r] = "idle" /\ pc'[r] = "thrown") =>
         \A b \in Backends : ~Selectable(b)
    /\ (algo = "RoundRobin" /\ pc[r] = "scan" /\ reads'[r] # reads[r]
          /\ IsHealthy(At(current_backend_index))) =>
         /\ pc'[r] = "selected"
         /\ backend'[r] = At(current_backend_index)

\* C21: an Unhealthy backend whose /health answers 200 is Healthy and, in
\* the least-response balancer, in healthy_backends when the monitor cycle
\* that probed it completes, and from then on a request that finds no other
\* healthy backend is forwarded to it and is not refused with "No healthy
\* backends available".
C21_RecoveredBackendServes ==
  [][RecoveredIsPublished /\ RefusedOnlyWithoutSelectable]_vars


\* The pool has one backend, and it is healthy: flag Healthy, on no
\* unhealthy list, no forward to it has failed.
SingleHealthyBackend ==
  /\ Len(backends) = 1
  /\ Selectable(backends[1])
  /\ failed_forward = {}

\* C22: with a single configured backend that stays healthy, no request
\* fails with "No healthy backends available" and every forward goes to that
\* backend, in both balancers, also for a request that arrives while another
\* request is in flight or while a monitor cycle is running.
C22_SingleBackendServesAll ==
  [][\A r \in Requests :
       SingleHealthyBackend =>
         /\ pc'[r] = "thrown" => pc[r] = "thrown"
         /\ pc'[r] = "forward" => backend'[r] = backends[1]]_vars


\* The steps of send_request r that read or write the shared pool state:
\* the emptiness test, top() and pop(), and the push of the backend after
\* the forward in the least-response balancer; an evaluation of the scan's
\* loop condition with the cursor's update in the round robin balancer.
AccessesPool(r) ==
  \/ /\ algo = "LeastResponse"
     /\ pc[r] \in {"idle", "select", "forward"}
     /\ pc'[r] # pc[r]
  \/ /\ algo = "RoundRobin"
     /\ pc[r] = "scan"
     /\ reads'[r] # reads[r]

\* The steps of monitor t that read or write the partitions.
MonitorAccessesPool(t) ==
  /\ algo = "LeastResponse"
  /\ mpc[t] \in {"healthy_loop", "unhealthy_loop"}
  /\ mpc'[t] # mpc[t]

\* C23: every read and every write of the shared pool state (the round
\* robin cursor, the healthy and the unhealthy partition) by a dispatcher or
\* by the monitor is made by the holder of the semaphore, the emptiness test
\* of LeastResponseLoadBalancer::send_request included.
C23_PoolAccessUnderSemaphore ==
  [][/\ \A r \in Requests : AccessesPool(r) => holder = Request(r)
     /\ \A t \in Tasks : MonitorAccessesPool(t) => holder = Monitor(t)
     /\ <<healthy_backends, unhealthy_backends, current_backend_index>>' #
          <<healthy_backends, unhealthy_backends, current_backend_index>>
            => holder # NoOne]_vars


\* The holder of the semaphore is suspended in a co_await, of its forward or
\* of a probe, and needs a thread to be resumed.
HolderAwaits ==
  \/ \E r \in Requests : holder = Request(r) /\ pc[r] = "forward"
  \/ \E t \in Tasks :
       holder = Monitor(t) /\ mpc[t] \in {"await_healthy", "await_unhealthy"}

\* C24: the least-response balancer on a fixed number of worker threads
\* never reaches a state in which every worker thread is blocked in
\* backend_semaphore.acquire() while the holder of the semaphore waits for
\* one of those threads to resume it.
C24_NoThreadDeadlock ==
  ~(HolderAwaits /\ Cardinality(BlockedInAcquire) = NumThreads)


\* C25: in the least-response balancer, whenever backend_semaphore is free,
\* every backend in healthy_backends has health() Healthy and every backend
\* in unhealthy_backends has health() Unhealthy, from construction onward.
C25_PartitionsMatchFlags ==
  (algo = "LeastResponse" /\ backend_semaphore = 1) =>
    \A b \in Backends :
      /\ healthy_backends[b] > 0 => IsHealthy(b)
      /\ Occurrences(unhealthy_backends, b) > 0 => ~IsHealthy(b)


\* C26: in the least-response balancer the response_time() of a backend
\* does not change while that backend is an element of the healthy_backends
\* priority queue, so the queue's ordering by response_time stays valid.
C26_ResponseTimeFixedInQueue ==
  [][algo = "LeastResponse" =>
       \A b \in Backends :
         healthy_backends[b] > 0 =>
           response_time_ms'[b] = response_time_ms[b]]_vars

=============================================================================
